---- MODULE Spec2Model ----
(***************************************************************************)
(* Session-authenticated user management (main.py): registration, login,   *)
(* logout, dashboard, user listing and admin-gated user creation, plus the *)
(* startup bootstrap of the "admin" user.                                  *)
(*                                                                         *)
(* The store is the User table.  Worker processes share it; every handler  *)
(* that reads the table and later commits is split at the point between    *)
(* its last read and its commit, so two workers can both read before       *)
(* either writes.                                                          *)
(***************************************************************************)
EXTENDS Integers, Sequences, FiniteSets, TLC

\* ------------------------------------------------------------------ bounds
\* the table holds at most MaxUsers rows (the constraint on usernames
\* already keeps it to one row per username)
MaxUsers == 3

\* ------------------------------------------------------------ input domains
\* the worker processes that serve the app on one database
Workers == {"w1", "w2"}
\* "" is the empty form field / empty cookie value
Usernames == {"", "admin", "bob"}
Passwords == {"adminpassword", "x"}
\* the passwords of POST /users bodies
BodyPasswords == {"x"}
\* the salts the hasher draws from
Salts == {"s1"}
\* the username cookie of a request: <<>> when it carries none
Cookies == {<<>>} \cup {<<u>> : u \in Usernames}

VARIABLES
    users,  \* the User table, rows in insertion order
    pc,     \* per worker: "down", "boot", "idle", "register", "create"
    loc,    \* per worker: the locals of the handler it is inside
    jar,    \* the client's username cookie: <<>> or <<value>>
    last    \* the outcome of the last completed operation

vars == <<users, pc, loc, jar, last>>

\* ------------------------------------------------------------ password hasher
\* pwd_context.hash: a digest bound to the salt and the plaintext
Hash(password, salt) == [salt |-> salt, digest |-> <<salt, password>>]

\* pwd_context.verify: re-derive with the digest's salt and compare
Verify(password, hashed) == Hash(password, hashed.salt) = hashed

\* ------------------------------------------------------------------ the store
\* db.query(User).filter(User.username == username): the matching rows
Query(store, username) == SelectSeq(store, LAMBDA r : r.username = username)

\* User.id: assigned by the store on insertion
NextId(store) == Len(store) + 1

\* User.is_admin when the constructor is not given one
DefaultIsAdmin == FALSE

\* (variant: a username column with no constraint)
UniqueViolation_Off(store, username) == FALSE

\* the uniqueness constraint on User.username: the commit is refused
UniqueViolation(store, username) == Query(store, username) # <<>>

\* a commit that appends is possible while the table has room
Room(store) == Len(store) < MaxUsers

\* (variant: `if username is None`)
Falsy_NoneOnly(cookie) == cookie = <<>>

\* `not username` of the cookie parameter: None and "" are both falsy
Falsy(cookie) == cookie = <<>> \/ cookie[1] = ""

NoLocals ==
    [username |-> "", password |-> "", is_admin |-> FALSE, caller |-> <<>>]

\* the usernames of a sequence of rows
Names(rows) == [i \in 1..Len(rows) |-> rows[i].username]

\* what the client gets back, with the cookie the request carried
Outcome(op, cookie, status, detail, user) ==
    [op |-> op, cookie |-> cookie, status |-> status, detail |-> detail,
     user |-> user]

\* ------------------------------------------------------------ get_current_user
GetCurrentUser(cookie, store) ==
    IF Falsy(cookie)
    THEN [status |-> 403, detail |-> "User not authenticated", user |-> <<>>]
    ELSE LET found == Query(store, cookie[1]) IN
         IF found = <<>>
         THEN [status |-> 404, detail |-> "User not found", user |-> <<>>]
         ELSE [status |-> 200, detail |-> "", user |-> <<Head(found)>>]

\* (variant: a gate that never raises)
IsAdminGate_Open(user) == TRUE

\* is_admin(user): passes only for an admin
IsAdminGate(user) == user.is_admin

Init ==
    /\ users = <<>>
    /\ pc = [w \in Workers |-> "down"]
    /\ loc = [w \in Workers |-> NoLocals]
    /\ jar = <<>>
    /\ last = Outcome("none", <<>>, 0, "", <<>>)

\* ------------------------------------------------------------------ startup
\* (variant: the test without its `not`)
AdminMissing_Inverted(store) == Query(store, "admin") # <<>>

\* create_admin_user's test: no row named "admin"
AdminMissing(store) == Query(store, "admin") = <<>>

\* startup_event up to the test of create_admin_user: the admin is there and
\* the worker starts serving, or it goes on to create one
Startup(w) ==
    /\ pc[w] = "down"
    /\ IF AdminMissing(users)
       THEN /\ pc' = [pc EXCEPT ![w] = "boot"]
            /\ last' = last
       ELSE /\ pc' = [pc EXCEPT ![w] = "idle"]
            /\ last' = Outcome("startup", <<>>, 0, "admin exists", <<>>)
    /\ UNCHANGED <<users, loc, jar>>

\* create_admin_user's add and commit; a refused commit raises out of
\* startup_event and the worker does not come up
StartupCommit(w) ==
    /\ pc[w] = "boot"
    /\ \E salt \in Salts :
         LET admin_user == [id |-> NextId(users), username |-> "admin",
                            hashed_password |-> Hash("adminpassword", salt),
                            is_admin |-> TRUE]
         IN IF UniqueViolation(users, "admin")
            THEN /\ users' = users
                 /\ pc' = [pc EXCEPT ![w] = "down"]
                 /\ last' = Outcome("startup", <<>>, 0, "IntegrityError", <<>>)
            ELSE /\ Room(users)
                 /\ users' = Append(users, admin_user)
                 /\ pc' = [pc EXCEPT ![w] = "idle"]
                 /\ last' = Outcome("startup", <<>>, 0, "admin created", <<>>)
    /\ UNCHANGED <<loc, jar>>

\* the worker process ends; the table persists
Stop(w) ==
    /\ pc[w] = "idle"
    /\ pc' = [pc EXCEPT ![w] = "down"]
    /\ UNCHANGED <<users, loc, jar, last>>

\* -------------------------------------------------------------------- login
\* login_post's condition: the first row of that name verifies the password
LoginOK(store, username, password) ==
    LET found == Query(store, username) IN
    /\ found # <<>>
    /\ Verify(password, Head(found).hashed_password)

Login(w, username, password) ==
    /\ pc[w] = "idle"
    /\ IF LoginOK(users, username, password)
       THEN /\ jar' = <<username>>
            /\ last' = Outcome("login", <<>>, 302, "/dashboard", <<>>)
       ELSE /\ jar' = jar
            /\ last' = Outcome("login", <<>>, 401, "Invalid credentials", <<>>)
    /\ UNCHANGED <<users, pc, loc>>

\* ------------------------------------------------------------------ register
\* (variant: register_post passing is_admin=True)
NewRegisteredUser_Admin(store, username, password, salt) ==
    [id |-> NextId(store), username |-> username,
     hashed_password |-> Hash(password, salt), is_admin |-> TRUE]

\* (variant: register_post hashing the wrong form field)
NewRegisteredUser_WrongHash(store, username, password, salt) ==
    [id |-> NextId(store), username |-> username,
     hashed_password |-> Hash(username, salt), is_admin |-> DefaultIsAdmin]

\* the row register_post builds: no is_admin given
NewRegisteredUser(store, username, password, salt) ==
    [id |-> NextId(store), username |-> username,
     hashed_password |-> Hash(password, salt), is_admin |-> DefaultIsAdmin]

\* register_post up to its test of the table
Register(w, username, password) ==
    /\ pc[w] = "idle"
    /\ IF Query(users, username) # <<>>
       THEN /\ last' = Outcome("register", <<>>, 400,
                               "Username already taken", <<>>)
            /\ UNCHANGED <<pc, loc>>
       ELSE /\ pc' = [pc EXCEPT ![w] = "register"]
            /\ loc' = [loc EXCEPT ![w] = [NoLocals EXCEPT
                                             !.username = username,
                                             !.password = password]]
            /\ last' = last
    /\ UNCHANGED <<users, jar>>

\* register_post from the hashing to the response; a refused commit is an
\* exception no handler catches
RegisterCommit(w) ==
    /\ pc[w] = "register"
    /\ \E salt \in Salts :
         LET new_user == NewRegisteredUser(users, loc[w].username,
                                           loc[w].password, salt)
         IN IF UniqueViolation(users, new_user.username)
            THEN /\ users' = users
                 /\ last' = Outcome("register", <<>>, 500, "IntegrityError",
                                    <<>>)
            ELSE /\ Room(users)
                 /\ users' = Append(users, new_user)
                 /\ last' = Outcome("register", <<>>, 200,
                                    "Registration successful", <<>>)
    /\ pc' = [pc EXCEPT ![w] = "idle"]
    /\ loc' = [loc EXCEPT ![w] = NoLocals]
    /\ UNCHANGED jar

\* ----------------------------------------------------------------- dashboard
Dashboard(w, cookie) ==
    /\ pc[w] = "idle"
    /\ LET cur == GetCurrentUser(cookie, users) IN
       last' = Outcome("dashboard", cookie, cur.status, cur.detail,
                       Names(cur.user))
    /\ UNCHANGED <<users, pc, loc, jar>>

\* ----------------------------------------------------------------- GET /users
GetUsers(w, cookie) ==
    /\ pc[w] = "idle"
    /\ LET cur == GetCurrentUser(cookie, users) IN
       IF cur.status # 200
       THEN last' = Outcome("get_users", cookie, cur.status, cur.detail, <<>>)
       ELSE IF ~IsAdminGate(Head(cur.user))
       THEN last' = Outcome("get_users", cookie, 403, "Unauthorised",
                            Names(cur.user))
       ELSE last' = Outcome("get_users", cookie, 200, "", Names(cur.user))
    /\ UNCHANGED <<users, pc, loc, jar>>

\* ---------------------------------------------------------------- POST /users
\* create_user's dependency and gate, the reads before its commit; the body
\* {username, password, is_admin} matters only to a request let through
CreateUser(w, cookie) ==
    /\ pc[w] = "idle"
    /\ LET cur == GetCurrentUser(cookie, users) IN
       IF cur.status # 200
       THEN /\ last' = Outcome("create_user", cookie, cur.status, cur.detail,
                               <<>>)
            /\ UNCHANGED <<pc, loc>>
       ELSE IF ~IsAdminGate(Head(cur.user))
       THEN /\ last' = Outcome("create_user", cookie, 403, "Unauthorised",
                               Names(cur.user))
            /\ UNCHANGED <<pc, loc>>
       ELSE /\ \E username \in Usernames, password \in BodyPasswords,
                  admin \in BOOLEAN :
                 loc' = [loc EXCEPT ![w] = [username |-> username,
                                            password |-> password,
                                            is_admin |-> admin,
                                            caller |-> Names(cur.user)]]
            /\ pc' = [pc EXCEPT ![w] = "create"]
            /\ last' = last
    /\ UNCHANGED <<users, jar>>

\* create_user from the hashing to the response: no test of the table, the
\* commit alone decides
CreateUserCommit(w) ==
    /\ pc[w] = "create"
    /\ \E salt \in Salts :
         LET new_user == [id |-> NextId(users), username |-> loc[w].username,
                          hashed_password |-> Hash(loc[w].password, salt),
                          is_admin |-> loc[w].is_admin]
         IN IF UniqueViolation(users, new_user.username)
            THEN /\ users' = users
                 /\ last' = Outcome("create_user", loc[w].caller, 500,
                                    "IntegrityError", loc[w].caller)
            ELSE /\ Room(users)
                 /\ users' = Append(users, new_user)
                 /\ last' = Outcome("create_user", loc[w].caller, 200, "",
                                    loc[w].caller)
    /\ pc' = [pc EXCEPT ![w] = "idle"]
    /\ loc' = [loc EXCEPT ![w] = NoLocals]
    /\ UNCHANGED jar

\* -------------------------------------------------------------------- logout
\* delete_cookie acts on the injected response, which is dropped; the
\* response returned is a fresh RedirectResponse with its default status
Logout(w) ==
    /\ pc[w] = "idle"
    /\ jar' = jar
    /\ last' = Outcome("logout", <<>>, 307, "/", <<>>)
    /\ UNCHANGED <<users, pc, loc>>

Next ==
    \E w \in Workers :
        \/ Startup(w)
        \/ StartupCommit(w)
        \/ Stop(w)
        \/ \E u \in Usernames, p \in Passwords : Login(w, u, p)
        \/ \E u \in Usernames, p \in Passwords : Register(w, u, p)
        \/ RegisterCommit(w)
        \/ \E c \in Cookies : Dashboard(w, c)
        \/ \E c \in Cookies : GetUsers(w, c)
        \/ \E c \in Cookies : CreateUser(w, c)
        \/ CreateUserCommit(w)
        \/ Logout(w)

Spec == Init /\ [][Next]_vars

\* ------------------------------------------------------------ the handlers'
\* steps, with the inputs read back from what the step left behind (the
\* leading conjuncts repeat what the action itself fixes)
DashboardStep(w, c) ==
    last'.op = "dashboard" /\ last'.cookie = c /\ Dashboard(w, c)

GetUsersStep(w, c) ==
    last'.op = "get_users" /\ last'.cookie = c /\ GetUsers(w, c)

\* POST /users refused before its commit
CreateUserRefused(w, c) ==
    /\ last'.op = "create_user" /\ last'.cookie = c
    /\ pc[w] = "idle" /\ pc'[w] = "idle"
    /\ CreateUser(w, c)

\* POST /users let through to its commit
CreateUserAdmitted(w, c) ==
    /\ pc[w] = "idle" /\ pc'[w] = "create"
    /\ CreateUser(w, c)

\* a step of one of the three handlers that require authentication
AuthStep ==
    \/ last'.op \in {"dashboard", "get_users", "create_user"}
    \/ \E w \in Workers : pc[w] = "idle" /\ pc'[w] = "create"

LoginStep(w, u, p) ==
    pc[w] = "idle" /\ Login(w, u, p)

\* POST /register let through to its commit
RegisterAdmitted(w, u, p) ==
    /\ pc[w] = "idle" /\ pc'[w] = "register"
    /\ loc'[w].username = u /\ loc'[w].password = p
    /\ Register(w, u, p)

\* POST /register refused by the handler's test
RegisterRefused(w, u, p) ==
    /\ pc[w] = "idle" /\ pc'[w] = "idle"
    /\ Register(w, u, p)

Exists(store, username) == \E i \in 1..Len(store) : store[i].username = username

Serving(w) == pc[w] \in {"idle", "register", "create"}

\* the cookie names a row of the table that is not an admin
NonAdminCookie(cookie) ==
    /\ cookie # <<>>
    /\ cookie[1] # ""
    /\ \E i \in 1..Len(users) :
         users[i].username = cookie[1] /\ ~users[i].is_admin

\* what C1 promises of a request with this cookie, absent being the cookies
\* that count as no cookie
AuthOutcome(absent, cookie, status, detail, user) ==
    IF cookie \in absent
    THEN status = 403 /\ detail = "User not authenticated"
    ELSE IF ~Exists(users, cookie[1])
    THEN status = 404 /\ detail = "User not found"
    ELSE /\ ~(status = 403 /\ detail = "User not authenticated")
         /\ status # 404
         /\ user = <<cookie[1]>>

AuthContract(absent) ==
    AuthStep =>
    \A w \in Workers, c \in Cookies :
        /\ DashboardStep(w, c) =>
             AuthOutcome(absent, c, last'.status, last'.detail, last'.user)
        /\ GetUsersStep(w, c) =>
             AuthOutcome(absent, c, last'.status, last'.detail, last'.user)
        /\ CreateUserRefused(w, c) =>
             AuthOutcome(absent, c, last'.status, last'.detail, last'.user)
        /\ CreateUserAdmitted(w, c) =>
             AuthOutcome(absent, c, 200, "", loc'[w].caller)

C2_LoginContract ==
    [][last'.op = "login" =>
       \A w \in Workers, u \in Usernames, p \in Passwords :
         LoginStep(w, u, p) =>
            IF \E i \in 1..Len(users) :
                  /\ users[i].username = u
                  /\ Verify(p, users[i].hashed_password)
            THEN /\ last'.status = 302
                 /\ last'.detail = "/dashboard"
                 /\ jar' = <<u>>
                 /\ GetCurrentUser(jar', users').status = 200
                 /\ Names(GetCurrentUser(jar', users').user) = <<u>>
            ELSE /\ last'.status = 401
                 /\ jar' = jar]_vars

\* C3: a non-admin authenticated user requesting /users by GET or POST gets
\* 403 "Unauthorised", and the request neither changes the table nor goes on
\* to a commit.
C3_NonAdminForbidden ==
    [][AuthStep =>
       \A w \in Workers, c \in Cookies :
         /\ (GetUsersStep(w, c) /\ NonAdminCookie(c)) =>
               /\ last'.status = 403
               /\ last'.detail = "Unauthorised"
               /\ users' = users
         /\ (CreateUserRefused(w, c) /\ NonAdminCookie(c)) =>
               /\ last'.status = 403
               /\ last'.detail = "Unauthorised"
               /\ users' = users
         /\ CreateUserAdmitted(w, c) => ~NonAdminCookie(c)]_vars

\* POST /users has refused a non-admin
C3_Witness ==
    /\ last.op = "create_user"
    /\ last.cookie = <<"bob">>
    /\ last.status = 403
    /\ last.detail = "Unauthorised"

\* C4: POST /users by an admin with a username the table already holds fails
\* with 400 and leaves the table as it was.
C4_DuplicateCreateIs400 ==
    [][\A w \in Workers :
         (CreateUserCommit(w) /\ Exists(users, loc[w].username)) =>
            /\ last'.status = 400
            /\ users' = users]_vars

\* C5: GET /logout by a client holding a session cookie answers 302 to /,
\* leaves the client without the cookie, so that its next request to
\* /dashboard fails with 403, and changes nothing in the table.
C5_LogoutClearsCookie ==
    [][\A w \in Workers :
         (Logout(w) /\ jar # <<>>) =>
            /\ last'.status = 302
            /\ last'.detail = "/"
            /\ jar' = <<>>
            /\ GetCurrentUser(jar', users').status = 403
            /\ users' = users]_vars

\* C6: in every reachable state the table holds at most one User per
\* username, whatever the interleaving of registrations, admin creations and
\* bootstraps.
C6_UniqueUsernames ==
    \A i, j \in 1..Len(users) :
        users[i].username = users[j].username => i = j

\* two creations of one username both read before either wrote, and the
\* second commit has been refused
C6_Witness ==
    /\ last.op \in {"register", "create_user"}
    /\ last.status = 500
    /\ Len(users) = 2

\* C7: a registration of a username that is taken fails with 400
\* "Username already taken" and leaves the table unchanged, both when the
\* handler's test finds the name and when its commit does.
C7_DuplicateRegisterIs400 ==
    [][\A w \in Workers :
         /\ \A u \in Usernames, p \in Passwords :
              /\ (RegisterRefused(w, u, p) /\ Exists(users, u)) =>
                    /\ last'.status = 400
                    /\ users' = users
              /\ RegisterAdmitted(w, u, p) => ~Exists(users, u)
         /\ (RegisterCommit(w) /\ Exists(users, loc[w].username)) =>
                 /\ last'.status = 400
                 /\ users' = users]_vars

\* C8: a registration of a username the table does not hold passes the
\* handler's test, and its commit answers 200 and adds exactly one User of
\* that name, with which (u, p) logs in; and no step ever takes away a
\* login that works.
C8_RegisterThenLogin ==
    [][/\ \A w \in Workers :
           /\ \A u \in Usernames, p \in Passwords :
                /\ RegisterRefused(w, u, p) => Exists(users, u)
                /\ (RegisterAdmitted(w, u, p) /\ ~Exists(users, u)) =>
                      last' = last
           /\ (RegisterCommit(w) /\ ~Exists(users, loc[w].username)) =>
                   /\ last'.op = "register"
                   /\ last'.status = 200
                   /\ Len(users') = Len(users) + 1
                   /\ SubSeq(users', 1, Len(users)) = users
                   /\ users'[Len(users')].username = loc[w].username
                   /\ LoginOK(users', loc[w].username, loc[w].password)
       /\ users' # users =>
            \A u \in Usernames, p \in Passwords :
                LoginOK(users, u, p) => LoginOK(users', u, p)]_vars

\* a registered User has logged in
C8_Witness ==
    /\ last.op = "login"
    /\ last.status = 302
    /\ jar = <<"bob">>
    /\ \E i \in 1..Len(users) :
         users[i].username = "bob" /\ ~users[i].is_admin

\* C9: no step changes an existing User; a new User is an admin only when
\* the bootstrap added it or a POST /users added it whose caller is an admin
\* User; and every User a registration adds is not an admin.
C9_AdminOnlyByAdmin ==
    [][/\ Len(users') >= Len(users)
       /\ SubSeq(users', 1, Len(users)) = users
       /\ \A i \in (Len(users) + 1)..Len(users') :
            users'[i].is_admin =>
               \/ \E w \in Workers :
                    StartupCommit(w) /\ users'[i].username = "admin"
               \/ \E w \in Workers :
                    /\ CreateUserCommit(w)
                    /\ \E k \in 1..Len(users) :
                         /\ <<users[k].username>> = loc[w].caller
                         /\ users[k].is_admin
       /\ \A w \in Workers :
            RegisterCommit(w) =>
               \A i \in (Len(users) + 1)..Len(users') :
                   ~users'[i].is_admin]_vars

\* a User other than the bootstrap admin is an admin
C9_Witness ==
    /\ last.op = "create_user"
    /\ last.status = 200
    /\ \E i \in 1..Len(users) :
         users[i].is_admin /\ users[i].username = "bob"

\* C10: a worker that has started finds a User "admin" in the table; a
\* bootstrap that finds one adds no User and changes none; and there is
\* never more than one "admin".
C10_BootstrapIdempotent ==
    /\ [](\A w \in Workers : Serving(w) => Exists(users, "admin"))
    /\ [](Len(Query(users, "admin")) <= 1)
    /\ [][\A w \in Workers :
            ((Startup(w) \/ StartupCommit(w)) /\ Exists(users, "admin")) =>
               users' = users]_vars

\* a bootstrap has run on a table that already held the admin
C10_Witness ==
    /\ last.op = "startup"
    /\ last.detail = "admin exists"
    /\ Len(Query(users, "admin")) = 1
====
